---- MODULE Spec2Model ----
(***************************************************************************)
(* Copy trader of examples/copy_trade.py (polling mode) and of             *)
(* examples/copy_trade_websocket.py (push mode).                           *)
(*                                                                         *)
(* Units.  Position sizes are integers in 1e-5 coin (0.0001 coin = 10,     *)
(* 0.001 = 100, 0.01 = 1000, 1.0 = 100000).  Prices are whole dollars,     *)
(* 0 standing for "no price" as in the code (current_price = 0).  Dollar   *)
(* thresholds are in cents.  copy_percentage is in 1/1000 (0.01 = 10).     *)
(* All arithmetic is exact; the value sets below are chosen so that the    *)
(* Python float computation gives the same results (no rounding ties).     *)
(***************************************************************************)
EXTENDS Integers, Sequences, FiniteSets, TLC

VARIABLES
    cfg,                 \* constructor arguments and attributes set by main()
    acct,                \* account values read by user_state: [my, target]
    target,              \* the target wallet's real signed position per coin
    my,                  \* our own real signed position per coin
    last_positions,      \* self.last_positions: coin -> szi of the last snapshot
    copy_percentage,     \* self.copy_percentage, in 1/1000
    consecutive_errors,  \* local of start_monitoring
    pc,                  \* where start_monitoring is
    log,                 \* exchange calls and notifications of the current
                         \* iteration, in order
    shutdowns,           \* reasons passed to _notify_shutdown, in order
    lastOutcome,         \* how the latest call of monitor_positions ended
    failStreak,          \* number of calls of monitor_positions that raised since
                         \* the last one that returned
    prevErrors,          \* consecutive_errors before the latest call of
                         \* monitor_positions
    opened,              \* coins on which the target opened a position since
                         \* the latest call of monitor_positions
    events,              \* number of target trades and failed snapshot fetches so
                         \* far (bounds the run)
    processed_fills,     \* self.processed_fills of CopyTraderWebsocket
    deliveries,          \* per fill id: how often it was delivered (2 = more
                         \* than once), how many orders were sent for it, how
                         \* the last one ended
    message              \* the user of the message on_fill is handling and
                         \* the side codes of its fills (NoMessage outside
                         \* the callback)

vars == <<cfg, acct, target, my, last_positions, copy_percentage,
          consecutive_errors, pc, log, shutdowns, lastOutcome, failStreak,
          prevErrors, opened, events, processed_fills, deliveries,
          message>>

\* the state of the push-mode trader (copy_trade_websocket.py)
pushVars == <<processed_fills, deliveries, message>>

----------------------------------------------------------------------------
(* Bounds of the model *)

\* target trades plus failed snapshot fetches in one run
MaxEvents == 2

Coins == {"ETH", "BNB"}
CoinOrder == <<"ETH", "BNB">>

\* signed target sizes per coin, 0 = no position (1.0 coin = 100000)
TargetSizes(coin) ==
    IF coin = "ETH" THEN {-200000, -100000, 0, 100000, 200000}
    ELSE {0, 100000}

\* the target's positions when the process starts
InitTargets ==
    {t \in [Coins -> {-100000, 0, 100000, 200000}] :
        t["ETH"] \in {-100000, 0, 200000} /\ t["BNB"] \in {0, 100000}}

\* our own holdings when the process starts
MyInits == {[c \in Coins |-> 0],
            [c \in Coins |-> IF c = "ETH" THEN 300 ELSE 5000],
            [c \in Coins |-> IF c = "ETH" THEN -300 ELSE 0]}

\* mid prices a cycle may see; 0 = the lookup failed or gave no price
Prices(coin) == IF coin = "ETH" THEN {0, 3000} ELSE {0, 720}

AcctValues == {[my |-> 2, target |-> 1000]}

Outcomes == {"filled", "unfilled", "rejected", "raise"}

\* the trader as main() builds it (cross margin, no startup sync, existing
\* positions not copied, its list of allowed coins), with the multiplier at
\* the constructor's default of 1.0
BaseConfig ==
    [copy_existing_positions |-> FALSE,
     telegram |-> FALSE,
     enable_notifications |-> TRUE,
     use_isolated_margin |-> FALSE,
     sync_on_startup |-> FALSE,
     allowed_none |-> FALSE,
     allowed_coins |-> {"SOL", "BTC", "ETH", "BNB", "MON", "HYPE"},
     position_size_multiplier |-> 1000,
     max_leverage |-> 10]

\* without and with a Telegram bot configured
Configs ==
    {BaseConfig,
     [BaseConfig EXCEPT !.telegram = TRUE]}

------------------------------------------------------------------------\* push mode: the fills the userFills feed may deliver.  A fill is
\* identified by its transaction hash and its time.
MaxDeliveries == 2
Hashes == {"0xa", "0xb"}
Times == {1, 2}
FillSizes == {100000}

\* line 145: fill_id = f"{hash}_{time}"
FillId(hash, time) == hash \o "_" \o ToString(time)

FillIds == {FillId(h, t) : h \in Hashes, t \in Times}

\* wallet addresses are sequences of characters; the target wallet as it is
\* given to the constructor, and the users of the messages of the feed
TARGET_WALLET == <<"0", "x", "A", "b">>
Users ==
    {<<"0", "x", "a", "b">>, <<"0", "x", "A", "B">>, <<"0", "x", "C", "d">>,
     <<"0", "x", "c", "d">>, <<>>}
NoMessage == [user |-> <<"none">>, sides |-> <<>>]

NoDeliveries ==
    [id \in FillIds |-> [delivered |-> 0, orders |-> 0, last |-> "none"]]

PushFills ==
    [coin : Coins, side : {"A", "B"}, sz : FillSizes,
     hash : Hashes, time : Times]

\* the fills of one message: one fill, or two fills of one transaction on
\* one side of one coin
Batches ==
    {<<f>> : f \in PushFills}
        \cup {b \in PushFills \X PushFills :
                 /\ b[1].hash = b[2].hash
                 /\ b[1].coin = b[2].coin
                 /\ b[1].side = b[2].side}

----
(* Program constants *)

MIN_TRADE_VALUE_TARGET == 1050
MIN_TRADE_VALUE_REQUIRED == 1000
max_consecutive_errors == 5

----------------------------------------------------------------------------
(* Helpers *)

Abs(x) == IF x < 0 THEN -x ELSE x
Min(a, b) == IF a < b THEN a ELSE b
Get(f, k) == IF k \in DOMAIN f THEN f[k] ELSE 0
Empty == [c \in {} |-> 0]

\* the functions that give each coin a value of the set S[coin]
PerCoin(S) ==
    {f \in [Coins -> UNION {S[c] : c \in Coins}] : \A c \in Coins : f[c] \in S[c]}

Ev(k, site, coin, sz, res) ==
    [k |-> k, site |-> site, coin |-> coin, sz |-> sz, res |-> res]

\* round(x, ndigits) of Python for x = n/d (in units of 1e-5 coin), to a
\* multiple of g units: nearest, an exact tie to the even multiple.
PyRound(n, d, g) ==
    LET m == d * g
        q == n \div m
        r == n % m
    IN  IF 2 * r > m THEN (q + 1) * g
        ELSE IF 2 * r < m THEN q * g
        ELSE IF q % 2 = 0 THEN q * g ELSE (q + 1) * g

\* two decimals for every coin
GrainCoarse(coin) == 1000

\* the rounding table repeated through place_copy_order: 4 decimals for BTC
\* and ETH, 2 for SOL, 2 for the rest
Grain(coin) ==
    IF coin \in {"BTC", "ETH"} THEN 10
    ELSE IF coin = "SOL" THEN 1000
    ELSE 1000

\* size * price < cents/100 for a size in units of 1e-5 coin
ValueBelow(size, price, cents) == size <= (cents * 1000 - 1) \div price

\* (raw/1000) * price < cents/100 for an unrounded size raw/1000 units
RawValueBelow(raw, price, cents) == raw <= (cents * 1000000 - 1) \div price

\* copy_size = MIN_TRADE_VALUE_TARGET / current_price, then rounded
MinSize(coin, price) == PyRound(MIN_TRADE_VALUE_TARGET * 1000, price, Grain(coin))

----------------------------------------------------------------------------
(* Order sizing of place_copy_order *)

\* scale up to the $10.50 target when the unrounded value is below it, then
\* round to the coin's precision
Scaled(coin, raw, price) ==
    IF price > 0 /\ RawValueBelow(raw, price, MIN_TRADE_VALUE_TARGET)
    THEN MinSize(coin, price)
    ELSE PyRound(raw, 1000, Grain(coin))

\* "verify final trade value is still above minimum after rounding": up to two
\* further rounds of the same scaling
Verify(coin, size, price) ==
    IF price > 0 /\ ValueBelow(size, price, MIN_TRADE_VALUE_REQUIRED)
    THEN LET again == MinSize(coin, price)
         IN  IF ValueBelow(again, price, MIN_TRADE_VALUE_REQUIRED)
             THEN MinSize(coin, price)
             ELSE again
    ELSE size

\* a close that is not capped
CapToHeldNever(size, my_position_size) == size

\* "make sure we don't try to close more than we have"
CapToHeld(size, my_position_size) ==
    IF size > Abs(my_position_size) THEN Abs(my_position_size) ELSE size

\* a final check whose second round adds one step of the coin's precision
FinalCheckBumped(coin, size, price) ==
    IF price > 0 /\ ValueBelow(size, price, MIN_TRADE_VALUE_REQUIRED)
    THEN LET again == MinSize(coin, price)
         IN  IF ValueBelow(again, price, MIN_TRADE_VALUE_REQUIRED)
             THEN again + Grain(coin)
             ELSE again
    ELSE size

\* "final check before placing order": the second round of lines 533-542
\* repeats the first
FinalCheck(coin, size, price) ==
    IF price > 0 /\ ValueBelow(size, price, MIN_TRADE_VALUE_REQUIRED)
    THEN MinSize(coin, price)
    ELSE size

\* the size handed to market_close(coin, sz=...) on the sell path
SellSize(coin, raw, price, my_position_size) ==
    FinalCheck(coin,
               CapToHeld(Verify(coin, Scaled(coin, raw, price), price),
                         my_position_size),
               price)

\* the size handed to market_open(coin, is_buy, sz=...) on the buy path
BuySize(coin, raw, price) ==
    FinalCheck(coin, Verify(coin, Scaled(coin, raw, price), price), price)

----------------------------------------------------------------------------
(* The exchange and info clients (hyperliquid.exchange / hyperliquid.info) *)

\* a filled market_open moves our position by the order size
OpenFill(pos, coin, is_buy, sz) ==
    [pos EXCEPT ![coin] = IF is_buy THEN @ + sz ELSE @ - sz]

\* a filled market_close is reduce-only: it moves our position towards zero,
\* by the whole position when no size (or a zero size) is given
CloseFill(pos, coin, sz) ==
    LET held == Abs(pos[coin])
        q == IF sz = 0 \/ sz > held THEN held ELSE sz
    IN  [pos EXCEPT ![coin] = IF @ > 0 THEN @ - q ELSE @ + q]

\* get_current_positions: the target's positions, {} when the fetch fails
get_current_positions(fetchOk) ==
    IF fetchOk
    THEN [c \in {x \in Coins : target[x] # 0} |-> target[c]]
    ELSE Empty

\* the unrealizedPnl field of the target's position on a coin, in dollars:
\* the ETH position stands at its entry price, the BNB position does not.
\* No line of the trader reads the field but the listing of lines 838-840.
unrealizedPnl(coin) == IF coin = "ETH" THEN 0 ELSE 36

\* get_my_positions: our positions above 0.001, {} when the fetch fails
get_my_positions(pos, myOk) ==
    IF myOk
    THEN [c \in {x \in Coins : Abs(pos[x]) > 100} |-> pos[c]]
    ELSE Empty

Allowed(coin) == cfg.allowed_none \/ coin \in cfg.allowed_coins

\* a notification through the configured channels, Telegram first
Notify(st, name, coin) ==
    LET tg == IF cfg.telegram
              THEN <<Ev("telegram", name, coin, 0, "sent")>> ELSE <<>>
        mac == IF cfg.enable_notifications
               THEN <<Ev("macos", name, coin, 0, "sent")>> ELSE <<>>
    IN  [st EXCEPT !.log = @ \o tg \o mac]

Call(st, k, site, coin, sz, res) ==
    [st EXCEPT !.log = Append(@, Ev(k, site, coin, sz, res))]

\* the target snapshot fetch of get_current_positions
Fetched(in) ==
    Ev("get_current_positions", "", "", 0, IF in.fetchOk THEN "ok" ELSE "raise")

\* the read of our own position of a coin through get_my_positions
ReadMy(st, site, coin, in) ==
    Call(st, "get_my_positions", site, coin,
         Get(get_my_positions(st.my, in.myOk), coin),
         IF in.myOk THEN "ok" ELSE "raise")

\* the mid-price lookup of place_copy_order (name_to_coin, all_mids)
ReadPrice(st, coin, in) ==
    Call(st, "all_mids", "order", coin, in.price[coin],
         IF in.price[coin] > 0 THEN "ok" ELSE "none")

\* adjust_copy_percentage: min(my_value / target_value, 1.0) when both values
\* are positive; unchanged otherwise and when user_state raises
adjust_copy_percentage(st, in) ==
    LET ok == in.myOk /\ acct.my > 0 /\ acct.target > 0
        new == IF ok THEN Min((acct.my * 1000) \div acct.target, 1000) ELSE st.pct
    IN  [st EXCEPT !.pct = new,
                   !.log = Append(@, Ev("adjust_copy_percentage", "", "", new,
                                        IF in.myOk THEN "ok" ELSE "raise"))]

----------------------------------------------------------------------------
(* place_copy_order(coin, current_size, prev_size)                          *)
(* st = [my, pct, log, raised]: our positions, self.copy_percentage, the    *)
(* calls made so far in this cycle, whether an exception is propagating.    *)
(* in = what the outside world answers during this cycle:                   *)
(*   fetchOk  the target's user_state call succeeds                         *)
(*   myOk     our own user_state calls succeed                              *)
(*   price    the mid price each coin's lookup gives (0 = none)             *)
(*   res      what the exchange does with an order for each coin            *)
(*   lev      what update_leverage answers for each coin                    *)
(*   mar      what update_isolated_margin answers for each coin             *)

\* lines 348-482: the target's size went down
SellPath(st, coin, raw, in) ==
    LET my_position_size == Get(get_my_positions(st.my, in.myOk), coin)
        current_price == in.price[coin]
        copy_size == SellSize(coin, raw, current_price, my_position_size)
        res == in.res[coin]
        read == ReadMy(st, "order", coin, in)
        called == Call(ReadPrice(read, coin, in),
                       "market_close", "order", coin, copy_size, res)
    IN  IF Abs(my_position_size) < 100
        THEN read
        ELSE IF res = "filled"
        THEN adjust_copy_percentage(
                 [called EXCEPT !.my = CloseFill(@, coin, copy_size)], in)
        ELSE called

\* lines 572-603: leverage and isolated margin before an opening order
\* the two calls without their own handlers: an exception of either leaves
\* the block
MarginSetupUnguarded(st, coin, copy_size, current_price, in) ==
    IF ~cfg.use_isolated_margin
    THEN st
    ELSE LET lev == Call(st, "update_leverage", "order", coin,
                         cfg.max_leverage, in.lev[coin])
             margin_to_add == PyRound(copy_size * current_price * 11,
                                      cfg.max_leverage, 1)
             mar == Call(lev, "update_isolated_margin", "order", coin,
                         margin_to_add, in.mar[coin])
         IN  IF in.lev[coin] = "raise"
             THEN [lev EXCEPT !.raised = TRUE]
             ELSE IF current_price > 0 /\ copy_size > 0
                  THEN [mar EXCEPT !.raised = (in.mar[coin] = "raise")]
                  ELSE lev

\* lines 572-603: update_leverage, then update_isolated_margin when the value
\* of the trade is known; each call sits in its own try, whose handler logs
\* a warning, so no failure leaves the block
MarginSetup(st, coin, copy_size, current_price, in) ==
    IF ~cfg.use_isolated_margin
    THEN st
    ELSE LET lev == Call(st, "update_leverage", "order", coin,
                         cfg.max_leverage, in.lev[coin])
             \* round(trade_value / max_leverage * 1.1, 6), in 1e-6 dollars
             margin_to_add == PyRound(copy_size * current_price * 11,
                                      cfg.max_leverage, 1)
         IN  IF current_price > 0 /\ copy_size > 0
             THEN Call(lev, "update_isolated_margin", "order", coin,
                       margin_to_add, in.mar[coin])
             ELSE lev

\* lines 484-697: the target's size went up
BuyPath(st, coin, raw, in) ==
    LET current_price == in.price[coin]
        copy_size == BuySize(coin, raw, current_price)
        res == in.res[coin]
        detected == Notify(ReadPrice(st, coin, in), "TargetTradeDetected", coin)
        funded == MarginSetup(detected, coin,
                              Verify(coin, Scaled(coin, raw, current_price),
                                     current_price),
                              current_price, in)
        called == Call(funded, "market_open", "order", coin, copy_size, res)
        filled == [called EXCEPT !.my = OpenFill(@, coin, TRUE, copy_size)]
    IN  CASE funded.raised ->
               \* an exception leaving the try of line 544 is taken by the
               \* handler of line 696: the order is not sent
               [funded EXCEPT !.raised = FALSE]
          [] res = "raise" -> called
          [] res = "rejected" -> Notify(called, "OrderFailed", coin)
          [] res = "unfilled" -> called
          [] res = "filled" ->
               \* notify_trade_executed is called with five arguments and
               \* takes four: with Telegram configured the call raises, the
               \* handler at line 696 catches it and the rest is skipped
               IF cfg.telegram
               THEN filled
               ELSE adjust_copy_percentage(
                        Notify(filled, "OrderExecuted", coin), in)

\* a noise floor of half the size
NegligibleHalf(size_diff) == Abs(size_diff) < 5

\* line 341: abs(size_diff) < 0.0001
Negligible(size_diff) == Abs(size_diff) < 10

place_copy_order(st, coin, current_size, prev_size, in) ==
    LET size_diff == current_size - prev_size
        raw == Abs(size_diff) * st.pct
    IN  IF Negligible(size_diff)
        THEN st
        ELSE IF ~(size_diff > 0)
        THEN SellPath(st, coin, raw, in)
        ELSE BuyPath(st, coin, raw, in)

----------------------------------------------------------------------------
(* monitor_positions *)

\* lines 715-733: the loop over current_positions
RECURSIVE FirstLoop(_, _, _, _, _)
FirstLoop(st, i, current_positions, is_first_check, in) ==
    IF i > Len(CoinOrder)
    THEN st
    ELSE LET coin == CoinOrder[i]
             current_size == Get(current_positions, coin)
             prev_size == Get(last_positions, coin)
             skip == \/ coin \notin DOMAIN current_positions
                     \/ ~Allowed(coin)
                     \/ is_first_check /\ ~cfg.copy_existing_positions
                     \/ ~(Abs(current_size - prev_size) > 1000)
             next == IF skip
                     THEN st
                     ELSE place_copy_order(st, coin, current_size, prev_size, in)
         IN  FirstLoop(next, i + 1, current_positions, is_first_check, in)

\* lines 743-774: the coin left the target's snapshot
ClosedBranch(st, coin, in) ==
    LET my_position_size == Get(get_my_positions(st.my, in.myOk), coin)
        res == in.res[coin]
        read == ReadMy(st, "closed", coin, in)
        notified == Notify(read, "PositionClosed", coin)
        called == Call(notified, "market_close", "closed", coin, 0, res)
    IN  IF ~(Abs(my_position_size) > 100)
        THEN read
        ELSE CASE res = "raise" -> called
               [] res = "rejected" -> called
               [] res = "unfilled" -> adjust_copy_percentage(called, in)
               [] res = "filled" ->
                    adjust_copy_percentage(
                        [called EXCEPT !.my = CloseFill(@, coin, 0)], in)

\* lines 775-821: the coin is still in the snapshot with another size
ReducedBranch(st, coin, current_size, prev_size, in) ==
    LET size_diff == current_size - prev_size
        my_position_size == Get(get_my_positions(st.my, in.myOk), coin)
        close_amount == PyRound(Abs(size_diff) * st.pct, 1000, Grain(coin))
        res == in.res[coin]
        read == ReadMy(st, "reduce", coin, in)
        called == Call(read, "market_close", "reduce", coin, close_amount, res)
    IN  IF /\ Abs(size_diff) > 1000
           /\ (size_diff < 0 /\ prev_size > 0) \/ (size_diff > 0 /\ prev_size < 0)
        THEN IF Abs(my_position_size) > 100 /\ Abs(close_amount) > 100
             THEN CASE res = "raise" -> [called EXCEPT !.raised = TRUE]
                    [] res = "rejected" -> called
                    [] res = "unfilled" -> adjust_copy_percentage(called, in)
                    [] res = "filled" ->
                         adjust_copy_percentage(
                             [called EXCEPT
                                 !.my = CloseFill(@, coin, close_amount)], in)
             ELSE read
        ELSE st

\* lines 736-821: the loop over self.last_positions
RECURSIVE SecondLoop(_, _, _, _)
SecondLoop(st, i, current_positions, in) ==
    IF i > Len(CoinOrder) \/ st.raised
    THEN st
    ELSE LET coin == CoinOrder[i]
             next == IF coin \notin DOMAIN last_positions \/ ~Allowed(coin)
                     THEN st
                     ELSE IF coin \notin DOMAIN current_positions
                     THEN ClosedBranch(st, coin, in)
                     ELSE ReducedBranch(st, coin, current_positions[coin],
                                        last_positions[coin], in)
         IN  SecondLoop(next, i + 1, current_positions, in)

\* one call of monitor_positions: the state it leaves, with raised = TRUE
\* when it ends by an exception, and the snapshot it fetched
monitor_positions(in) ==
    LET current_positions == get_current_positions(in.fetchOk)
        is_first_check == Cardinality(DOMAIN last_positions) = 0
        st0 == [my |-> my, pct |-> copy_percentage,
                log |-> <<Fetched(in)>>, raised |-> FALSE]
        st1 == FirstLoop(st0, 1, current_positions, is_first_check, in)
        st2 == SecondLoop(st1, 1, current_positions, in)
    IN  [st |-> st2, current_positions |-> current_positions]

----------------------------------------------------------------------------
(* __init__ *)

\* lines 139-162: the copy percentage chosen at construction (auto_calculate
\* is on and no manual percentage is given, as in main())
InitCopyPercentage(c, a) ==
    IF a.my > 0 /\ a.target > 0
    THEN (((a.my * 1000) \div a.target) * c.position_size_multiplier) \div 1000
    ELSE (10 * c.position_size_multiplier) \div 1000

----------------------------------------------------------------------------
(* sync_positions_on_startup *)

\* lines 264-271: close every position of ours when the target shows none
RECURSIVE SyncCloseAll(_, _, _, _)
SyncCloseAll(st, i, my_positions, in) ==
    IF i > Len(CoinOrder)
    THEN st
    ELSE LET coin == CoinOrder[i]
             res == in.res[coin]
             called == Call(st, "market_close", "startup", coin, 0, res)
             next == IF coin \notin DOMAIN my_positions
                     THEN st
                     ELSE IF res = "filled"
                     THEN [called EXCEPT !.my = CloseFill(@, coin, 0)]
                     ELSE called
         IN  SyncCloseAll(next, i + 1, my_positions, in)

sync_positions_on_startup(in) ==
    LET target_positions == get_current_positions(in.fetchOk)
        my_positions == get_my_positions(my, in.myOk)
        st0 == ReadMy([my |-> my, pct |-> copy_percentage,
                       log |-> <<Fetched(in)>>, raised |-> FALSE],
                      "startup", "", in)
    IN  IF DOMAIN target_positions = {}
        THEN SyncCloseAll(st0, 1, my_positions, in)
        ELSE st0

----------------------------------------------------------------------------
(* start_monitoring *)

\* the answers to update_leverage and update_isolated_margin, asked only in
\* isolated-margin mode
PreOutcomes == {"ok", "err", "raise"}
PreAnswers == IF cfg.use_isolated_margin THEN PreOutcomes ELSE {"ok"}

Inputs ==
    [fetchOk : BOOLEAN, myOk : BOOLEAN,
     price : PerCoin([c \in Coins |-> Prices(c)]),
     res : [Coins -> Outcomes],
     lev : [Coins -> PreAnswers], mar : [Coins -> PreAnswers]]

\* A coin whose size in the fetched snapshot equals the recorded one gets no
\* price lookup and no order in monitor_positions: its answers are fixed.
Moved(fetchOk, coin) ==
    Get(get_current_positions(fetchOk), coin) # Get(last_positions, coin)

CycleInputs ==
    UNION {[fetchOk : {f}, myOk : BOOLEAN,
            price : PerCoin([c \in Coins |->
                                IF Moved(f, c) THEN Prices(c) ELSE {0}]),
            res : PerCoin([c \in Coins |->
                              IF Moved(f, c) THEN Outcomes ELSE {"filled"}]),
            lev : PerCoin([c \in Coins |->
                              IF Moved(f, c) THEN PreAnswers ELSE {"ok"}]),
            mar : PerCoin([c \in Coins |->
                              IF Moved(f, c) THEN PreAnswers ELSE {"ok"}])]
           : f \in {x \in BOOLEAN : ~x => events < MaxEvents}}

\* An answer that no call of the step reads is fixed (the step's log names
\* every call made), so that each behaviour of the step is listed once.
Read(in, lg) ==
    LET has(k, c) == \E i \in 1..Len(lg) : lg[i].k = k /\ (c = "" \/ lg[i].coin = c)
        ordered(c) == has("market_open", c) \/ has("market_close", c)
        asked == has("get_my_positions", "") \/ has("adjust_copy_percentage", "")
    IN  /\ \A c \in Coins :
             /\ ~has("all_mids", c) => in.price[c] = 0
             /\ ~ordered(c) => in.res[c] = "filled"
             /\ ~has("update_leverage", c) => in.lev[c] = "ok"
             /\ ~has("update_isolated_margin", c) => in.mar[c] = "ok"
        /\ ~asked => in.myOk

\* _notify_shutdown(reason): one message per configured channel
notify_shutdown(sd, reason) ==
    Append(sd, [reason |-> reason,
                channels |-> (IF cfg.telegram THEN {"telegram"} ELSE {})
                             \cup (IF cfg.enable_notifications
                                   THEN {"macos"} ELSE {})])

\* a fail-fast test that allows one failure more
TooManyErrorsLate(n) == n > max_consecutive_errors

\* line 874: the fail-fast test
TooManyErrors(n) == n >= max_consecutive_errors

\* a counter that a successful call leaves as it is
NextErrorsNoReset(n, raised) == IF raised THEN n + 1 ELSE n

\* lines 869-871: the counter after a call of monitor_positions
NextErrors(n, raised) == IF raised THEN n + 1 ELSE 0

\* line 824 is reached only when monitor_positions did not raise
NextLast(raised, current_positions) ==
    IF raised THEN last_positions ELSE current_positions

Init ==
    /\ cfg \in Configs
    /\ acct \in AcctValues
    /\ target \in InitTargets
    /\ my \in MyInits
    /\ last_positions = Empty
    /\ copy_percentage = InitCopyPercentage(cfg, acct)
    /\ consecutive_errors = 0
    /\ pc = "start"
    /\ log = <<>>
    /\ shutdowns = <<>>
    /\ lastOutcome = "none"
    /\ failStreak = 0
    /\ prevErrors = 0
    /\ opened = {}
    /\ events = 0
    /\ processed_fills = {}
    /\ deliveries = NoDeliveries
    /\ message = NoMessage

\* lines 854-863: the optional startup sync, then the loop begins
Start ==
    /\ pc = "start"
    /\ \E in \in Inputs :
         LET st == IF cfg.sync_on_startup
                   THEN sync_positions_on_startup(in)
                   ELSE [my |-> my, pct |-> copy_percentage, log |-> <<>>,
                         raised |-> FALSE]
         IN  /\ Read(in, st.log)
             /\ ~cfg.sync_on_startup => in.fetchOk
             /\ ~in.fetchOk => events < MaxEvents
             /\ events' = IF in.fetchOk THEN events ELSE events + 1
             /\ my' = st.my
             /\ log' = st.log
    /\ pc' = "running"
    /\ UNCHANGED pushVars
    /\ UNCHANGED <<cfg, acct, target, last_positions, copy_percentage,
                   consecutive_errors, shutdowns, lastOutcome, failStreak,
                   prevErrors, opened>>

\* lines 866-881 and 886-889: one iteration of the while loop
Cycle ==
    /\ pc = "running"
    /\ \E in \in CycleInputs :
         LET r == monitor_positions(in)
             raised == r.st.raised
             n == NextErrors(consecutive_errors, raised)
             fatal == raised /\ TooManyErrors(n)
         IN  /\ Read(in, r.st.log)
             /\ my' = r.st.my
             /\ copy_percentage' = r.st.pct
             /\ log' = r.st.log
             /\ last_positions' = NextLast(raised, r.current_positions)
             /\ consecutive_errors' = n
             /\ lastOutcome' = IF raised THEN "failed" ELSE "ok"
             /\ failStreak' = IF raised THEN failStreak + 1 ELSE 0
             /\ prevErrors' = consecutive_errors
             /\ opened' = {}
             /\ pc' = IF fatal THEN "terminated" ELSE "sleeping"
             /\ shutdowns' = IF fatal
                             THEN notify_shutdown(shutdowns, "Error")
                             ELSE shutdowns
             /\ events' = IF in.fetchOk THEN events ELSE events + 1
    /\ UNCHANGED pushVars
    /\ UNCHANGED <<cfg, acct, target>>

\* line 879: time.sleep(10), then the next iteration begins
Sleep ==
    /\ pc = "sleeping"
    /\ pc' = "running"
    /\ log' = <<>>
    /\ UNCHANGED pushVars
    /\ UNCHANGED <<cfg, acct, target, my, last_positions, copy_percentage,
                   consecutive_errors, shutdowns, lastOutcome, failStreak,
                   prevErrors, opened, events>>

\* lines 883-885: Ctrl+C, taken between two iterations
Interrupt ==
    /\ pc = "running"
    /\ pc' = "stopped"
    /\ shutdowns' = notify_shutdown(shutdowns, "User stopped")
    /\ UNCHANGED pushVars
    /\ UNCHANGED <<cfg, acct, target, my, last_positions, copy_percentage,
                   consecutive_errors, log, lastOutcome, failStreak,
                   prevErrors, opened, events>>

\* the target wallet trades between two polls
TargetMove ==
    /\ pc = "running"
    /\ events < MaxEvents
    /\ \E c \in Coins : \E s \in TargetSizes(c) \ {target[c]} :
         /\ target' = [target EXCEPT ![c] = s]
         /\ opened' = IF s = 0 THEN opened \ {c}
                       ELSE IF target[c] = 0 THEN opened \cup {c}
                       ELSE opened
    /\ events' = events + 1
    /\ UNCHANGED pushVars
    /\ UNCHANGED <<cfg, acct, my, last_positions, copy_percentage,
                   consecutive_errors, pc, log, shutdowns, lastOutcome,
                   failStreak, prevErrors>>

Next == Start \/ Cycle \/ Sleep \/ Interrupt \/ TargetMove

Spec == Init /\ [][Next]_vars

----------------------------------------------------------------------------
(* The copy percentage under other multipliers and moving account values    *)

\* main() as written (POSITION_SIZE_MULTIPLIER = 2.0), and a multiplier
\* below 1
DoubleConfig == [BaseConfig EXCEPT !.position_size_multiplier = 2000]
HalfConfig == [BaseConfig EXCEPT !.position_size_multiplier = 500]

\* the account values user_state may report: ours far below the target's,
\* ours above the target's, ours at zero
RatioAccts ==
    {[my |-> 2, target |-> 1000],
     [my |-> 2000, target |-> 1000],
     [my |-> 0, target |-> 1000]}

\* the configurations and the account values found at construction
RatioStarts ==
    {<<DoubleConfig, [my |-> 2, target |-> 1000]>>,
     <<HalfConfig, [my |-> 2000, target |-> 1000]>>,
     <<BaseConfig, [my |-> 2, target |-> 1000]>>}

InitRatio ==
    /\ \E s \in RatioStarts : cfg = s[1] /\ acct = s[2]
    /\ target \in {t \in InitTargets : t["ETH"] \in {0, 200000}}
    /\ my \in {m \in MyInits : m["ETH"] >= 0}
    /\ last_positions = Empty
    /\ copy_percentage = InitCopyPercentage(cfg, acct)
    /\ consecutive_errors = 0
    /\ pc = "start"
    /\ log = <<>>
    /\ shutdowns = <<>>
    /\ lastOutcome = "none"
    /\ failStreak = 0
    /\ prevErrors = 0
    /\ opened = {}
    /\ events = 0
    /\ processed_fills = {}
    /\ deliveries = NoDeliveries
    /\ message = NoMessage

\* the account values change between two polls (trades, funding, transfers)
AcctMove ==
    /\ pc = "running"
    /\ events < MaxEvents
    /\ acct' \in RatioAccts \ {acct}
    /\ events' = events + 1
    /\ UNCHANGED pushVars
    /\ UNCHANGED <<cfg, target, my, last_positions, copy_percentage,
                   consecutive_errors, pc, log, shutdowns, lastOutcome,
                   failStreak, prevErrors, opened>>

NextRatio == Start \/ Cycle \/ Sleep \/ Interrupt \/ TargetMove \/ AcctMove

SpecRatio == InitRatio /\ [][NextRatio]_vars

----------------------------------------------------------------------------
(* Starting with SYNC_ON_STARTUP = True                                     *)

SyncConfig == [BaseConfig EXCEPT !.sync_on_startup = TRUE]

InitSync ==
    /\ cfg = SyncConfig
    /\ acct \in AcctValues
    /\ target \in InitTargets
    /\ my \in MyInits
    /\ last_positions = Empty
    /\ copy_percentage = InitCopyPercentage(cfg, acct)
    /\ consecutive_errors = 0
    /\ pc = "start"
    /\ log = <<>>
    /\ shutdowns = <<>>
    /\ lastOutcome = "none"
    /\ failStreak = 0
    /\ prevErrors = 0
    /\ opened = {}
    /\ events = 0
    /\ processed_fills = {}
    /\ deliveries = NoDeliveries
    /\ message = NoMessage

SpecSync == InitSync /\ [][Next]_vars

----------------------------------------------------------------------------
(* Trading ETH only: ALLOWED_COINS = ["ETH"], with and without the startup  *)
(* sync                                                                     *)

EthOnlyConfigs ==
    {[c EXCEPT !.allowed_coins = {"ETH"}] : c \in {BaseConfig, SyncConfig}}

InitAllowed ==
    /\ cfg \in EthOnlyConfigs
    /\ acct \in AcctValues
    /\ target \in InitTargets
    /\ my \in MyInits
    /\ last_positions = Empty
    /\ copy_percentage = InitCopyPercentage(cfg, acct)
    /\ consecutive_errors = 0
    /\ pc = "start"
    /\ log = <<>>
    /\ shutdowns = <<>>
    /\ lastOutcome = "none"
    /\ failStreak = 0
    /\ prevErrors = 0
    /\ opened = {}
    /\ events = 0
    /\ processed_fills = {}
    /\ deliveries = NoDeliveries
    /\ message = NoMessage

SpecAllowed == InitAllowed /\ [][Next]_vars

----------------------------------------------------------------------------
(* The target trades 0.01 at a time                                         *)

\* a trade of 0.01 by the target, between positions of 0.01, 0.02 and none:
\* there the float subtraction of the code gives 0.01 exactly, as the exact
\* arithmetic used here does (1.01 - 1.0 is above 0.01 in floating point)
SmallTrades == {-1000, 1000}
SmallSizes == {-1000, 0, 1000}

SmallMove ==
    /\ pc = "running"
    /\ events < MaxEvents
    /\ \E c \in Coins : \E d \in SmallTrades :
         /\ target[c] \in SmallSizes
         /\ target' = [target EXCEPT ![c] = @ + d]
         /\ opened' = IF target[c] + d = 0 THEN opened \ {c}
                       ELSE IF target[c] = 0 THEN opened \cup {c}
                       ELSE opened
    /\ events' = events + 1
    /\ UNCHANGED pushVars
    /\ UNCHANGED <<cfg, acct, my, last_positions, copy_percentage,
                   consecutive_errors, pc, log, shutdowns, lastOutcome,
                   failStreak, prevErrors>>

InitSmall ==
    /\ Init
    /\ cfg = BaseConfig
    /\ target["ETH"] \in {0, 200000}

NextSmall == Start \/ Cycle \/ Sleep \/ Interrupt \/ TargetMove \/ SmallMove

SpecSmall == InitSmall /\ [][NextSmall]_vars

----------------------------------------------------------------------------
(* place_copy_order called on its own                                       *)

\* the sizes place_copy_order is called with: prev_size and the change
\* current_size - prev_size.  1.0001 - 1.0 is below 0.0001 in binary
\* floating point while 0.0001 - 0.0 is not: a change of exactly 0.0001 is
\* taken from zero only, where the exact arithmetic used here and the
\* floating-point arithmetic of the code agree.
MaxCalls == 2
PrevSizes == {0, 100000}
Steps == {-100000, -11, -10, -9, -5, 0, 5, 9, 10, 11, 100000, 200000,
          740000, 800000}
CallSizes ==
    {a \in PrevSizes \X Steps : Abs(a[2]) = 10 => a[1] = 0}

\* what the outside world answers during a call for one coin
CallInputs(coin) ==
    [fetchOk : {TRUE}, myOk : BOOLEAN,
     price : PerCoin([c \in Coins |-> IF c = coin THEN Prices(c) ELSE {0}]),
     res : PerCoin([c \in Coins |->
                       IF c = coin THEN Outcomes ELSE {"filled"}]),
     lev : PerCoin([c \in Coins |->
                       IF c = coin THEN PreAnswers ELSE {"ok"}]),
     mar : PerCoin([c \in Coins |->
                       IF c = coin THEN PreAnswers ELSE {"ok"}])]

\* place_copy_order(coin, current_size, prev_size): the log starts with the
\* call itself, its size being current_size - prev_size
DirectCall ==
    /\ pc = "start"
    /\ events < MaxCalls
    /\ \E coin \in Coins, a \in CallSizes :
         \E in \in CallInputs(coin) :
            LET prev_size == a[1]
                current_size == a[1] + a[2]
                entry == Ev("place_copy_order", "call", coin,
                            current_size - prev_size, "")
                st == place_copy_order(
                          [my |-> my, pct |-> copy_percentage,
                           log |-> <<entry>>, raised |-> FALSE],
                          coin, current_size, prev_size, in)
            IN  /\ Read(in, st.log)
                /\ my' = st.my
                /\ copy_percentage' = st.pct
                /\ log' = st.log
    /\ events' = events + 1
    /\ UNCHANGED pushVars
    /\ UNCHANGED <<cfg, acct, target, last_positions, consecutive_errors,
                   pc, shutdowns, lastOutcome, failStreak, prevErrors,
                   opened>>

NextOrder == DirectCall

\* the trader as constructed; the target's positions play no part in a call
InitOrder == Init /\ target = [c \in Coins |-> 0]

SpecOrder == InitOrder /\ [][NextOrder]_vars

----------------------------------------------------------------------------
(* Single calls of place_copy_order with USE_ISOLATED_MARGIN = True         *)

IsolatedConfigs == {[c EXCEPT !.use_isolated_margin = TRUE] : c \in Configs}

InitMargin ==
    /\ cfg \in IsolatedConfigs
    /\ acct \in AcctValues
    /\ target = [c \in Coins |-> 0]
    /\ my \in MyInits
    /\ last_positions = Empty
    /\ copy_percentage = InitCopyPercentage(cfg, acct)
    /\ consecutive_errors = 0
    /\ pc = "start"
    /\ log = <<>>
    /\ shutdowns = <<>>
    /\ lastOutcome = "none"
    /\ failStreak = 0
    /\ prevErrors = 0
    /\ opened = {}
    \* one call in each behaviour
    /\ events = MaxCalls - 1
    /\ processed_fills = {}
    /\ deliveries = NoDeliveries
    /\ message = NoMessage

SpecMargin == InitMargin /\ [][NextOrder]_vars

----------------------------------------------------------------------------
(* Push mode: CopyTraderWebsocket of examples/copy_trade_websocket.py       *)
(* st = [my, log, processed, dl]: our positions, the calls made for the     *)
(* current message, self.processed_fills, the record of deliveries.  A     *)
(* call or notification made for a fill carries the fill's id as its site. *)

\* lines 108-118: the copy percentage at construction
InitCopyPercentagePush(a) ==
    IF a.my > 0 /\ a.target > 0
    THEN Min((a.my * 1000) \div a.target, 1000)
    ELSE 10

\* a notification about a fill through the configured channels
PushNotify(st, name, id, coin) ==
    LET tg == IF cfg.telegram
              THEN <<Ev("telegram", id, coin, 0, name)>> ELSE <<>>
        mac == IF cfg.enable_notifications
               THEN <<Ev("macos", id, coin, 0, name)>> ELSE <<>>
    IN  [st EXCEPT !.log = @ \o tg \o mac]

\* lines 186-236: place_copy_order(coin, size, is_buy, price)
ws_place_copy_order(st, id, coin, size, is_buy, res) ==
    LET copy_size == PyRound(Abs(size) * copy_percentage, 1000, Grain(coin))
        called == [Call(st, "market_open", id, coin, copy_size, res)
                      EXCEPT !.dl[id].orders = @ + 1, !.dl[id].last = res]
        filled == [called EXCEPT !.my = OpenFill(@, coin, is_buy, copy_size)]
        done == IF res = "filled" THEN filled ELSE called
    IN  IF copy_size < 100
        THEN st
        ELSE IF res \in {"raise", "rejected"}
        THEN called
        ELSE IF cfg.telegram
        THEN done
        ELSE PushNotify(done, "OrderExecuted", id, coin)

\* a test that forgets every fill
SeenNever(id, processed) == FALSE

\* lines 146-147: the fill was processed before
Seen(id, processed) == id \in processed

\* line 152: is_buy = (side == "A")
is_buy(side) == side = "A"

\* track_wallet.py, lines 92 and 121: side_str = "BUY" if side == "B" else
\* "SELL", the tracker's reading of the side code of an order or a fill
side_str(side) == IF side = "B" THEN "BUY" ELSE "SELL"

\* lines 136-184: handle_user_fill(fill_data)
handle_user_fill(st, f, res) ==
    LET id == FillId(f.hash, f.time)
        counted == [st EXCEPT !.dl[id].delivered = Min(@ + 1, 2)]
        added == [counted EXCEPT !.processed = @ \cup {id}]
        notified == PushNotify(added, "TargetTradeDetected", id, f.coin)
    IN  IF Seen(id, st.processed)
        THEN counted
        ELSE ws_place_copy_order(notified, id, f.coin, f.sz,
                                 is_buy(f.side), res)

RECURSIVE HandleFills(_, _, _, _)
\* lines 251-254: for fill in fills: self.handle_user_fill(fill)
HandleFills(st, fills, i, res) ==
    IF i > Len(fills)
    THEN st
    ELSE HandleFills(handle_user_fill(st, fills[i], res[i]), fills, i + 1, res)

\* str.lower() on the characters of an address
LowerChar(ch) ==
    CASE ch = "A" -> "a" [] ch = "B" -> "b" [] ch = "C" -> "c"
      [] ch = "D" -> "d" [] ch = "E" -> "e" [] ch = "F" -> "f"
      [] OTHER -> ch
lower(s) == [i \in DOMAIN s |-> LowerChar(s[i])]

\* line 66: self.target_wallet = target_wallet.lower()
target_wallet == lower(TARGET_WALLET)

on_fillAnyUser(st, msg) == HandleFills(st, msg.fills, 1, msg.res)

\* lines 242-254: the callback of the userFills subscription; a message
\* without a user has the user ""
on_fill(st, msg) ==
    IF lower(msg.user) # target_wallet
    THEN st
    ELSE HandleFills(st, msg.fills, 1, msg.res)

\* the messages of the feed, with what the exchange does with the order of
\* each fill; a message whose user is not spelled as in the subscription
\* carries one fill
Messages ==
    {[user |-> target_wallet, fills |-> b, res |-> r] :
        b \in Batches, r \in [1..2 -> Outcomes]}
        \cup {[user |-> u, fills |-> <<f>>, res |-> [i \in 1..2 |-> "filled"]] :
                 u \in Users \ {target_wallet},
                 f \in {x \in PushFills : x.hash = "0xa" /\ x.time = 1
                                            /\ x.coin = "ETH" /\ x.side = "A"}}

InitPush ==
    /\ cfg \in Configs
    /\ acct \in AcctValues
    /\ target = [c \in Coins |-> 0]
    /\ my = [c \in Coins |-> 0]
    /\ last_positions = Empty
    /\ copy_percentage = InitCopyPercentagePush(acct)
    /\ consecutive_errors = 0
    /\ pc = "start"
    /\ log = <<>>
    /\ shutdowns = <<>>
    /\ lastOutcome = "none"
    /\ failStreak = 0
    /\ prevErrors = 0
    /\ opened = {}
    /\ events = 0
    /\ processed_fills = {}
    /\ deliveries = NoDeliveries
    /\ message = NoMessage

\* lines 255-262: start_monitoring subscribes to the target's fills
Subscribe ==
    /\ pc = "start"
    /\ pc' = "listening"
    /\ UNCHANGED pushVars
    /\ UNCHANGED <<cfg, acct, target, my, last_positions, copy_percentage,
                   consecutive_errors, log, shutdowns, lastOutcome,
                   failStreak, prevErrors, opened, events>>

\* a message of the feed is delivered: on_fill runs to its end
OnFill ==
    /\ pc = "listening"
    /\ events < MaxDeliveries
    /\ \E msg \in Messages :
         LET st == on_fill([my |-> my, log |-> <<>>,
                            processed |-> processed_fills,
                            dl |-> deliveries], msg)
             sent(i) == \E j \in 1..Len(st.log) :
                            /\ st.log[j].k = "market_open"
                            /\ st.log[j].site = FillId(msg.fills[i].hash,
                                                       msg.fills[i].time)
         IN  /\ \A i \in 1..2 :
                    (i > Len(msg.fills) \/ ~sent(i)) => msg.res[i] = "filled"
             /\ my' = st.my
             /\ log' = st.log
             /\ processed_fills' = st.processed
             /\ deliveries' = st.dl
             /\ message' = [user |-> msg.user,
                             sides |-> [i \in DOMAIN msg.fills |->
                                           msg.fills[i].side]]
    /\ events' = events + 1
    /\ pc' = "delivered"
    /\ UNCHANGED <<cfg, acct, target, last_positions, copy_percentage,
                   consecutive_errors, shutdowns, lastOutcome,
                   failStreak, prevErrors, opened>>

\* lines 264-266: the main thread sleeps until the next message
PushSleep ==
    /\ pc = "delivered"
    /\ pc' = "listening"
    /\ log' = <<>>
    /\ message' = NoMessage
    /\ UNCHANGED <<processed_fills, deliveries>>
    /\ UNCHANGED <<cfg, acct, target, my, last_positions, copy_percentage,
                   consecutive_errors, shutdowns, lastOutcome, failStreak,
                   prevErrors, opened, events>>

\* lines 268-283: KeyboardInterrupt while waiting
InterruptPush ==
    /\ pc = "listening"
    /\ pc' = "stopped"
    /\ shutdowns' = notify_shutdown(shutdowns, "User stopped")
    /\ UNCHANGED pushVars
    /\ UNCHANGED <<cfg, acct, target, my, last_positions, copy_percentage,
                   consecutive_errors, log, lastOutcome, failStreak,
                   prevErrors, opened, events>>

\* lines 284-286: any other exception while waiting is logged and raised
\* again
FatalPush ==
    /\ pc = "listening"
    /\ pc' = "terminated"
    /\ UNCHANGED pushVars
    /\ UNCHANGED <<cfg, acct, target, my, last_positions, copy_percentage,
                   consecutive_errors, log, shutdowns, lastOutcome,
                   failStreak, prevErrors, opened, events>>

NextPush == Subscribe \/ OnFill \/ PushSleep \/ InterruptPush \/ FatalPush

SpecPush == InitPush /\ [][NextPush]_vars

----------------------------------------------------------------------------
(* Properties.  The log holds the calls of the current iteration: an order  *)
(* of place_copy_order is an event of site "order", preceded by the price   *)
(* lookup and, for a close, by the read of our own position.                *)

OrderKinds == {"market_open", "market_close"}

\* the orders place_copy_order submitted in this iteration
PlacedOrders ==
    {i \in DOMAIN log : log[i].k \in OrderKinds /\ log[i].site = "order"}

\* the latest event of kind k for the coin of event i, before i
LastBefore(i, k) ==
    CHOOSE j \in 1..(i - 1) :
        /\ log[j].k = k /\ log[j].coin = log[i].coin
        /\ \A m \in (j + 1)..(i - 1) :
               ~(log[m].k = k /\ log[m].coin = log[i].coin)

\* our own position as place_copy_order read it before order i
HeldAt(i) == log[LastBefore(i, "get_my_positions")].sz

\* the mid price place_copy_order read before order i (0 = none)
PriceAt(i) == log[LastBefore(i, "all_mids")].sz

\* a step of Cycle: one call of monitor_positions
CycleStep == pc = "running" /\ pc' \in {"sleeping", "terminated"}

\* the target snapshot of the step was fetched
SnapshotFetched == log'[1].k = "get_current_positions" /\ log'[1].res = "ok"

\* C1: every close order that place_copy_order submits has a size of at most
\* the absolute size of our own position on that coin.
CloseNeverExceedsHeld ==
    \A i \in PlacedOrders :
        log[i].k = "market_close" => log[i].sz <= Abs(HeldAt(i))

\* C2: every order that place_copy_order submits with a known positive mid
\* price is worth at least $10.00, except a close order whose size is our
\* whole position.
OrdersMeetMinNotional ==
    \A i \in PlacedOrders :
        PriceAt(i) > 0 =>
            \/ ~ValueBelow(log[i].sz, PriceAt(i), MIN_TRADE_VALUE_REQUIRED)
            \/ log[i].k = "market_close" /\ log[i].sz = Abs(HeldAt(i))

\* C3: every size that place_copy_order hands to market_open or market_close
\* is strictly positive, whether the price is known or not.
OrderSizesPositive ==
    \A i \in PlacedOrders : log[i].sz > 0

\* the close orders of the step for a coin, from any place of the code
ClosesOf(coin) ==
    {i \in DOMAIN log' : log'[i].k = "market_close" /\ log'[i].coin = coin}

\* the orders of the step for a coin, from any place of the code
OrdersOf(coin) ==
    {i \in DOMAIN log' : log'[i].k \in OrderKinds /\ log'[i].coin = coin}

\* C4: a call of monitor_positions that finds a coin of the previous snapshot
\* absent from the fetched one, while we hold a position on that coin, makes
\* exactly one close attempt for it.
ClosedCoinClosedOnce ==
    [][\A c \in Coins :
          (/\ CycleStep /\ SnapshotFetched
           /\ c \in DOMAIN last_positions /\ target[c] = 0
           /\ Abs(my[c]) > 100 /\ Allowed(c))
          => Cardinality(ClosesOf(c)) = 1]_vars

\* C5: when the target increases a short (the previous size is negative and
\* the fetched one is below it) and we hold a position on the coin, the call
\* of monitor_positions submits no close order for the coin and our position
\* on it does not shrink.
ShortIncreaseNeverCloses ==
    [][\A c \in Coins :
          (/\ CycleStep /\ SnapshotFetched
           /\ c \in DOMAIN last_positions /\ last_positions[c] < 0
           /\ target[c] < last_positions[c]
           /\ my[c] # 0)
          => ClosesOf(c) = {} /\ Abs(my'[c]) >= Abs(my[c])]_vars

\* C6: when the target opens a short on a coin that was not in the previous
\* snapshot and we hold nothing on that coin, a call of monitor_positions
\* that is not the first check submits an order for the coin.
ShortOpeningIsCopied ==
    [][\A c \in Coins :
          (/\ CycleStep /\ SnapshotFetched
           /\ DOMAIN last_positions # {} /\ c \notin DOMAIN last_positions
           /\ target[c] < 0 /\ my[c] = 0 /\ Allowed(c))
          => OrdersOf(c) # {}]_vars

\* C7: a long position that the target opens after the first call of
\* monitor_positions is copied by the next call that fetches the snapshot:
\* the first-check skip applies to the first call only.
LaterOpeningIsCopied ==
    [][\A c \in Coins :
          (/\ CycleStep /\ SnapshotFetched
           /\ lastOutcome # "none"
           /\ c \in opened /\ c \notin DOMAIN last_positions
           /\ target[c] > 0 /\ Allowed(c))
          => \E i \in OrdersOf(c) : log'[i].k = "market_open"]_vars

\* the channels main() configured
Channels ==
    (IF cfg.telegram THEN {"telegram"} ELSE {})
        \cup (IF cfg.enable_notifications THEN {"macos"} ELSE {})

\* C8: once five calls of monitor_positions in a row have raised, the loop
\* is terminated, and a terminated loop has sent exactly one shutdown
\* notification, with the reason "Error", to each configured channel.
FiveFailuresTerminateWithOneShutdown ==
    /\ failStreak >= 5 => pc = "terminated"
    /\ pc = "terminated" =>
          /\ failStreak = 5
          /\ shutdowns = <<[reason |-> "Error", channels |-> Channels]>>

\* five failed calls in a row have ended the loop with its one notification
TerminatedAfterFiveFailures ==
    pc = "terminated" /\ failStreak = 5 /\ Len(shutdowns) = 1

\* C9: consecutive_errors is 0 after a call of monitor_positions that
\* returned and one more than before after a call that raised; it stays in
\* 0..5 and counts the calls that raised since the last one that returned,
\* so the loop is terminated only when the five latest calls all raised.
CounterCountsConsecutiveFailures ==
    /\ consecutive_errors \in 0..5
    /\ lastOutcome = "ok" => consecutive_errors = 0
    /\ lastOutcome = "failed" => consecutive_errors = prevErrors + 1
    /\ consecutive_errors = failStreak
    /\ pc = "terminated" => lastOutcome = "failed" /\ consecutive_errors = 5

\* a call that returned after two or more failed calls has reset the counter
CounterResetAfterFailures ==
    lastOutcome = "ok" /\ prevErrors >= 2 /\ consecutive_errors = 0

\* C10: a call of monitor_positions during which the target snapshot fetch
\* or an order call raises counts as a failed cycle: consecutive_errors
\* goes up by one.
TransientFailureCounts ==
    [][(/\ CycleStep
        /\ \E i \in DOMAIN log' :
              /\ log'[i].k \in OrderKinds \cup {"get_current_positions"}
              /\ log'[i].res = "raise")
       => consecutive_errors' = consecutive_errors + 1]_vars

----------------------------------------------------------------------------
(* The copy percentage                                                      *)

\* the recalculations of the step just taken that read both account values
Adjusts ==
    {i \in 1..Len(log) :
        log[i].k = "adjust_copy_percentage" /\ log[i].res = "ok"}

\* C11: whenever the copy percentage is computed at construction or
\* recomputed by adjust_copy_percentage with both account values positive,
\* it equals min(own value / target value, 1.0) times the position size
\* multiplier.
RatioIsCappedShareTimesMultiplier ==
    (acct.my > 0 /\ acct.target > 0) =>
        LET expected ==
                (Min((acct.my * 1000) \div acct.target, 1000)
                    * cfg.position_size_multiplier) \div 1000
        IN  /\ pc = "start" => copy_percentage = expected
            /\ \A i \in Adjusts : log[i].sz = expected

\* C12: whenever the copy percentage is computed or recomputed while the own
\* or the target account value is not positive, it is set to the safe
\* default 0.01, at construction and in adjust_copy_percentage.
NonPositiveValueGivesSafeDefault ==
    ~(acct.my > 0 /\ acct.target > 0) =>
        /\ pc = "start" => copy_percentage = 10
        /\ \A i \in Adjusts : log[i].sz = 10

\* C13: after a recalculation that follows a trade, with both account
\* values positive, the copy percentage is at most 1.0 times the position
\* size multiplier, also for multipliers below 1.
RecalculatedRatioWithinMultiplier ==
    (acct.my > 0 /\ acct.target > 0) =>
        \A i \in Adjusts : log[i].sz <= cfg.position_size_multiplier

\* the orders of the step just taken that filled
Fills ==
    {i \in 1..Len(log) : log[i].k \in OrderKinds /\ log[i].res = "filled"}

\* C14: after every order that fills, on the opening path, the partial
\* close and the full close, adjust_copy_percentage runs before the cycle
\* ends, with or without a Telegram notifier.
EveryFillRecalculates ==
    \A i \in Fills :
        \E j \in (i + 1)..Len(log) : log[j].k = "adjust_copy_percentage"

\* the orders of the step just taken that were accepted and did not fill
Unfilled ==
    {i \in 1..Len(log) : log[i].k \in OrderKinds /\ log[i].res = "unfilled"}

\* C15: an order that is accepted (status ok) and does not fill is followed
\* neither by an OrderExecuted notification nor by a recalculation of the
\* copy percentage, on every order path.
UnfilledOrderTriggersNothing ==
    \A i \in Unfilled :
        i < Len(log) =>
            /\ log[i + 1].k # "adjust_copy_percentage"
            /\ log[i + 1].site # "OrderExecuted"

----------------------------------------------------------------------------
(* Closing a position the target has left                                   *)

\* the PositionClosed notifications of the step just taken
ClosedNotices ==
    {i \in 1..Len(log) :
        log[i].k \in Channels /\ log[i].site = "PositionClosed"}

\* C18: when a coin leaves the target's positions while we hold it, the
\* PositionClosed notification comes after the close call for that coin,
\* not before it (the snapshot of this iteration was fetched, so the coin
\* has left the target's positions).
ClosedNoticeFollowsClose ==
    \A i \in ClosedNotices :
        (log[1].k = "get_current_positions" /\ log[1].res = "ok") =>
        \E j \in 1..(i - 1) :
            /\ log[j].k = "market_close"
            /\ log[j].site = "closed"
            /\ log[j].coin = log[i].coin

----------------------------------------------------------------------------
(* The pass at startup                                                      *)

\* the orders sync_positions_on_startup sent to the exchange
StartupOrders ==
    {i \in 1..Len(log) : log[i].k \in OrderKinds /\ log[i].site = "startup"}

\* C16: sync_positions_on_startup never sends an order or a close to the
\* exchange, whatever the target's and our positions are (here: whenever
\* it could fetch the target's positions); it only reports.
StartupSyncOnlyReports ==
    (log # <<>> /\ log[1].k = "get_current_positions" /\ log[1].res = "ok")
        => StartupOrders = {}

----------------------------------------------------------------------------
(* Push mode                                                                *)

\* the calls and notifications made for a fill id while the message just
\* delivered was handled
EventsFor(id) == {i \in 1..Len(log') : log'[i].site = id}

\* C17: in push mode, whatever fills are delivered and redelivered, at most
\* one order is attempted per fill id (hash and time), and the delivery of
\* a fill whose id was seen before makes no order and no notification,
\* also when the order of the first delivery failed.
OneAttemptPerFillId ==
    [][/\ \A id \in FillIds : deliveries'[id].orders <= 1
       /\ \A id \in processed_fills : EventsFor(id) = {}]_vars

\* a fill was delivered again after its order had failed
RedeliveredAfterFailedOrder ==
    \E id \in FillIds :
        /\ deliveries[id].delivered = 2
        /\ deliveries[id].orders = 1
        /\ deliveries[id].last \in {"rejected", "raise"}

----------------------------------------------------------------------------
(* The noise floor of place_copy_order                                      *)

\* the step just taken was a call of place_copy_order for a change of
\* less than 0.0001
CalledBelowFloor ==
    /\ log # <<>>
    /\ log[1].k = "place_copy_order"
    /\ Abs(log[1].sz) < 10

\* C19: for every prev_size and current_size less than 0.0001 apart,
\* place_copy_order returns with no order and no call to the exchange.
BelowNoiseFloorNoCall == CalledBelowFloor => Len(log) = 1

\* place_copy_order was called for a change of 0.00009 and made no call
SkippedJustBelowFloor ==
    CalledBelowFloor /\ Abs(log[1].sz) = 9 /\ Len(log) = 1

----------------------------------------------------------------------------
(* The deadband of monitor_positions                                        *)

\* the coins of the snapshot just fetched that monitor_positions compares
\* with the recorded snapshot
Compared ==
    {c \in Coins : /\ target[c] # 0
                   /\ Allowed(c)
                   /\ last_positions # Empty \/ cfg.copy_existing_positions}

\* place_copy_order went on to size an order for the coin
HandedToSizing(c) ==
    \E i \in 1..Len(log') : log'[i].site = "order" /\ log'[i].coin = c

\* C20: monitor_positions takes a coin as unchanged exactly when its size
\* moved by less than 0.01: a change of 0.01 or more, also one of exactly
\* 0.01, is handed to place_copy_order for sizing.
DeadbandIsBelowOneHundredth ==
    [][(CycleStep /\ SnapshotFetched) =>
          \A c \in Compared :
             HandedToSizing(c)
                 <=> ~(Abs(target[c] - Get(last_positions, c)) < 1000)]_vars

----------------------------------------------------------------------------
(* Sizing of an opening order                                               *)

\* the step just taken was a call of place_copy_order
DirectCallStep == log' # <<>> /\ log'[1].k = "place_copy_order"

\* the price the call read (0 when it read none)
CallPrice ==
    IF \E i \in 1..Len(log') : log'[i].k = "all_mids"
    THEN log'[CHOOSE i \in 1..Len(log') : log'[i].k = "all_mids"].sz
    ELSE 0

\* the opening orders the call sent
CallOpens == {i \in 1..Len(log') : log'[i].k = "market_open"}

----------------------------------------------------------------------------
(* The first snapshot                                                       *)

\* the step is the first call of monitor_positions and it fetched the
\* target's positions
FirstSnapshotStep == CycleStep /\ SnapshotFetched /\ lastOutcome = "none"

\* C22: on the first snapshot with copy_existing_positions off, a coin the
\* target holds at its entry price (unrealized PnL of zero, so within every
\* threshold) is copied as an opening from zero to its current size.
SimilarPositionIsAdopted ==
    [][(FirstSnapshotStep /\ ~cfg.copy_existing_positions) =>
          \A c \in Coins :
             (target[c] # 0 /\ Allowed(c) /\ unrealizedPnl(c) = 0)
                 => HandedToSizing(c)]_vars

\* what get_my_positions gave place_copy_order for the coin (0 when it was
\* not asked or gave nothing)
HeldRead(c) ==
    LET reads == {i \in 1..Len(log') : /\ log'[i].k = "get_my_positions"
                                       /\ log'[i].site = "order"
                                       /\ log'[i].coin = c}
    IN  IF reads = {} THEN 0 ELSE log'[CHOOSE i \in reads : TRUE].sz

\* the mid price place_copy_order read for the coin (0 when none)
PriceRead(c) ==
    LET reads == {i \in 1..Len(log') : /\ log'[i].k = "all_mids"
                                       /\ log'[i].coin = c}
    IN  IF reads = {} THEN 0 ELSE log'[CHOOSE i \in reads : TRUE].sz

\* place_copy_order sent an order of that size for the coin
OrderedSize(c, sz) ==
    \E i \in 1..Len(log') : /\ log'[i].k \in OrderKinds
                             /\ log'[i].site = "order"
                             /\ log'[i].coin = c
                             /\ log'[i].sz = sz

\* C23: a coin seen on the first snapshot and not adopted is recorded with
\* no order, and its next change of at least the deadband 0.01 gives an
\* order sized from the change against the recorded size, not against zero
\* (a decrease while we hold nothing is left aside: it is skipped by rule).
RecordedThenCopiedFromBaseline ==
    [][/\ (FirstSnapshotStep /\ ~cfg.copy_existing_positions) =>
             \A c \in Coins :
                target[c] # 0 =>
                    /\ ~HandedToSizing(c)
                    /\ c \in DOMAIN last_positions'
                    /\ last_positions'[c] = target[c]
       /\ (CycleStep /\ SnapshotFetched) =>
             \A c \in Compared \cap DOMAIN last_positions :
                LET delta == target[c] - last_positions[c]
                    raw == Abs(delta) * copy_percentage
                IN  /\ (delta >= 1000) =>
                          OrderedSize(c, BuySize(c, raw, PriceRead(c)))
                    /\ (delta <= -1000 /\ Abs(HeldRead(c)) >= 100) =>
                          OrderedSize(c, SellSize(c, raw, PriceRead(c),
                                                  HeldRead(c)))]_vars

\* C24: in isolated-margin mode every opening order comes after a
\* leverage-set call and then a margin-fund call of the same cycle, and the
\* margin funded is the order's value / max_leverage plus 10%, rounded to 6
\* decimals.
MarginFundedBeforeOpening ==
    [][(DirectCallStep /\ cfg.use_isolated_margin) =>
          \A i \in CallOpens :
             \E j \in 1..Len(log'), k \in 1..Len(log') :
                /\ j < k /\ k < i
                /\ log'[j].k = "update_leverage"
                /\ log'[j].coin = log'[i].coin
                /\ log'[k].k = "update_isolated_margin"
                /\ log'[k].coin = log'[i].coin
                /\ log'[k].sz = PyRound(log'[i].sz * CallPrice * 11,
                                        cfg.max_leverage, 1)]_vars

\* the leverage-set and margin-fund calls of the step that failed
FailedSetups ==
    {j \in 1..Len(log') : /\ log'[j].k \in {"update_leverage",
                                             "update_isolated_margin"}
                          /\ log'[j].res # "ok"}

\* C25: in isolated-margin mode a failed leverage-set or margin-fund call
\* (an error status or an exception) does not prevent the market order: it
\* is sent in the same call, with the size it has when both calls succeed.
FailedSetupStillOrders ==
    [][DirectCallStep =>
          \A j \in FailedSetups :
             \E i \in CallOpens :
                /\ i > j
                /\ log'[i].coin = log'[j].coin
                /\ log'[i].sz = BuySize(log'[1].coin,
                                        log'[1].sz * copy_percentage,
                                        CallPrice)]_vars

\* both calls failed, one by an exception, and the order went out
OrderedAfterBothSetupsFailed ==
    \E j, k, i \in 1..Len(log) :
        /\ j < k /\ k < i
        /\ log[j].k = "update_leverage" /\ log[j].res = "raise"
        /\ log[k].k = "update_isolated_margin" /\ log[k].res = "err"
        /\ log[i].k = "market_open" /\ log[i].sz > 0

\* C26: no failure of an exchange call made during a polling cycle leaves
\* monitor_positions as an exception: every call of it returns, also when
\* the close of a proportional reduction fails.
NoFailureLeavesMonitorPositions ==
    [][CycleStep => lastOutcome' = "ok"]_vars

\* C27: in both modes a shutdown notification comes before termination: an
\* interrupt by the user gives one ("User stopped") and a clean exit, an
\* unrecoverable error gives one ("Error") before it is raised again.
TerminationIsNotified ==
    /\ pc = "stopped" =>
          /\ shutdowns # <<>>
          /\ shutdowns[Len(shutdowns)].reason = "User stopped"
    /\ pc = "terminated" =>
          /\ shutdowns # <<>>
          /\ shutdowns[Len(shutdowns)].reason = "Error"

\* a notification of that name about the coin of order i was sent after it
\* (the polling mode records the name as the site, the push mode as the
\* result of the event)
NotifiedAfter(i, name) ==
    \E j \in (i + 1)..Len(log) :
        /\ log[j].k \in {"macos", "telegram"}
        /\ log[j].coin = log[i].coin
        /\ log[j].site = name \/ log[j].res = name

\* C28: every order submission that fails (an error status or an exception
\* of the exchange call) is followed by an OrderFailed notification and
\* every order that fills by an OrderExecuted notification, whichever path
\* sent the order (steps whose snapshot fetch failed are left aside).
FailedAndFilledOrdersAreNotified ==
    (log # <<>> /\ log[1].k = "get_current_positions" => log[1].res = "ok") =>
    \A i \in DOMAIN log :
        log[i].k \in OrderKinds =>
            /\ log[i].res \in {"rejected", "raise"} =>
                  NotifiedAfter(i, "OrderFailed")
            /\ log[i].res = "filled" => NotifiedAfter(i, "OrderExecuted")

\* the price lookup of place_copy_order for the coin gave no price
NoPrice(c) ==
    \E i \in 1..Len(log') : /\ log'[i].k = "all_mids"
                             /\ log'[i].coin = c
                             /\ log'[i].res = "none"

\* the change of the coin times the copy percentage, rounded to the coin's
\* precision
RoundedRatioSize(c) ==
    PyRound(Abs(target[c] - Get(last_positions, c)) * copy_percentage, 1000,
            IF c \in {"BTC", "ETH"} THEN 10 ELSE 1000)

\* the step failed for another reason than a price lookup: the close of a
\* proportional reduction raised
ReductionRaised ==
    \E i \in 1..Len(log') : /\ log'[i].k = "market_close"
                             /\ log'[i].site = "reduce"
                             /\ log'[i].res = "raise"

\* C29 as stated: when the mid-price lookup gives no price, the order is
\* still sent, with the size |change| x copy percentage rounded to the
\* coin's precision and no minimum-notional correction, and the cycle does
\* not count an error for it.
UnpricedOrderIsRoundedRatio ==
    [][CycleStep =>
          \A c \in Coins :
             NoPrice(c) =>
                /\ OrderedSize(c, RoundedRatioSize(c))
                /\ lastOutcome' = "failed" => ReductionRaised]_vars

\* C29 as amended: the same, a close being capped at the size held.
UnpricedOrderIsRatioSized ==
    [][CycleStep =>
          \A c \in Coins :
             NoPrice(c) =>
                /\ OrderedSize(c, IF target[c] > Get(last_positions, c)
                                  THEN RoundedRatioSize(c)
                                  ELSE Min(RoundedRatioSize(c),
                                           Abs(HeldRead(c))))
                /\ lastOutcome' = "failed" => ReductionRaised]_vars

\* a close was sent with no price known, below the $10.00 minimum at any
\* price of the model and capped at the size held
UnpricedCloseWasCapped ==
    \E i \in DOMAIN log, j \in DOMAIN log :
        /\ i < j
        /\ log[i].k = "all_mids" /\ log[i].res = "none"
        /\ log[j].k = "market_close" /\ log[j].site = "order"
        /\ log[j].coin = log[i].coin
        /\ log[j].sz = 300
        /\ Abs(target[log[j].coin] - Get(last_positions, log[j].coin)) = 300000

\* the target holds less of the coin than at the last snapshot, on the same
\* side, by more than the deadband
Reduced(c) ==
    /\ c \in DOMAIN last_positions
    /\ Abs(target[c]) < Abs(last_positions[c])
    /\ (target[c] > 0) = (last_positions[c] > 0)
    /\ target[c] # 0
    /\ Abs(target[c] - last_positions[c]) > 1000

\* an order for the coin went out in the step
OrderedIn(c) ==
    \E i \in 1..Len(log') : log'[i].k \in OrderKinds /\ log'[i].coin = c

\* C30: when the target reduces a position and we hold none in that coin, no
\* order is sent in that cycle and the baseline advances to the current
\* snapshot, so that the same change causes no order in a later cycle.
SkippedReductionIsNotRetried ==
    [][(CycleStep /\ SnapshotFetched) =>
          \A c \in Coins :
             (Reduced(c) /\ Allowed(c) /\ my[c] = 0) =>
                 /\ ~OrderedIn(c)
                 /\ c \in DOMAIN last_positions'
                 /\ last_positions'[c] = target[c]]_vars

\* the notifications that tell what became of an order or a close
ResultNotices == {"OrderExecuted", "OrderFailed", "PositionClosed"}

\* C31: within one polling cycle the steps come in order: the target
\* snapshot is fetched first, the orders that follow from the comparison
\* come after it, the notification of an order's result comes after the
\* order, and the baseline is replaced last (only by a cycle that came to
\* its end); the next cycle starts only after the sleep, during which
\* nothing is called.
CycleStepsInOrder ==
    [][/\ (CycleStep /\ SnapshotFetched) =>
             /\ \A i \in 2..Len(log') : log'[i].k # "get_current_positions"
             /\ \A j \in 1..Len(log') :
                   (log'[j].k \in {"macos", "telegram"}
                       /\ log'[j].site \in ResultNotices) =>
                      \E i \in 2..(j - 1) :
                         /\ log'[i].k \in OrderKinds
                         /\ log'[i].coin = log'[j].coin
             /\ last_positions' # last_positions => lastOutcome' = "ok"
             /\ pc' # "running"
       /\ pc = "sleeping" =>
             /\ log' = <<>>
             /\ my' = my /\ last_positions' = last_positions]_vars

\* C32: in one polling cycle at most one order or close is sent per coin: a
\* reduction by the target (coin still present) gives one reducing action,
\* not one from place_copy_order and a second from the reduction branch.
OneOrderPerCoinPerCycle ==
    [][(CycleStep /\ SnapshotFetched) =>
          \A c \in Coins : Cardinality(OrdersOf(c)) <= 1]_vars

\* C33: a failed fetch of the target snapshot causes no close of ours: in a
\* step (a cycle or the startup sync) whose fetch failed, no market_close is
\* sent and the baseline stays as it was.
FailedFetchClosesNothing ==
    [][(/\ log' # <<>>
        /\ log'[1].k = "get_current_positions"
        /\ log'[1].res = "raise") =>
          /\ \A i \in 1..Len(log') : log'[i].k # "market_close"
          /\ last_positions' = last_positions]_vars

\* place_copy_order sent an order for the coin in the step
CopiedIn(c) ==
    \E i \in 1..Len(log') : /\ log'[i].k \in OrderKinds
                             /\ log'[i].site = "order"
                             /\ log'[i].coin = c

\* C34: a change of the target is acted on in at most one cycle: the
\* baseline is replaced only by a cycle that did not raise, and a cycle that
\* sent an order for a change takes the new size of that coin into the
\* baseline, so that the next cycle does not see the same change again.
ChangeActedOnOnce ==
    [][(CycleStep /\ SnapshotFetched) =>
          /\ last_positions' # last_positions => lastOutcome' = "ok"
          /\ \A c \in Coins :
                CopiedIn(c) =>
                   /\ c \in DOMAIN last_positions'
                   /\ last_positions'[c] = target[c]]_vars

\* C35: with allowed_coins configured, no order and no close is ever sent
\* for a coin outside allowed_coins, the startup sync and the closing of a
\* position the target has left included (steps whose snapshot fetch failed
\* are left aside).
OnlyAllowedCoinsAreTraded ==
    (log # <<>> /\ log[1].k = "get_current_positions" => log[1].res = "ok") =>
    \A i \in DOMAIN log :
        log[i].k \in OrderKinds => Allowed(log[i].coin)

\* C36: push mode copies a fill in the direction the wallet tracker shows
\* for it: the order sent for a fill the tracker shows as BUY (side "B") is
\* a buy, the order for a fill it shows as SELL is a sell.
PushCopiesTrackerDirection ==
    [][(pc = "listening" /\ pc' = "delivered"
           /\ Len(message'.sides) = 1) =>
          \A i \in 1..Len(log') :
             (log'[i].k = "market_open" /\ log'[i].res = "filled") =>
                IF side_str(message'.sides[1]) = "BUY"
                THEN my'[log'[i].coin] > my[log'[i].coin]
                ELSE my'[log'[i].coin] < my[log'[i].coin]]_vars

\* C37: in push mode a message whose user differs from the target wallet,
\* upper and lower case taken as equal, produces no order, no notification
\* and no change to the set of processed fill ids.
OnlyTargetFillsAreHandled ==
    [][(pc = "listening" /\ pc' = "delivered"
           /\ lower(message'.user) # lower(TARGET_WALLET)) =>
          /\ log' = <<>>
          /\ processed_fills' = processed_fills
          /\ my' = my]_vars

\* a message of another user was delivered after a fill of the target was
\* copied
OtherUserAfterCopiedFill ==
    /\ pc = "delivered"
    /\ message # NoMessage
    /\ lower(message.user) # lower(TARGET_WALLET)
    /\ processed_fills # {}
    /\ log = <<>>

\* the size the call has after scaling and rounding, before the rounds that
\* verify it
CallScaled(price) ==
    Scaled(log'[1].coin, Abs(log'[1].sz) * copy_percentage, price)

====
